---- MODULE Spec2Model ----
(***************************************************************************)
(* A model of the Loopring API client library: the response object model   *)
(* of loopring/order.py (Transfer -> PartialOrder -> Order, Validity,      *)
(* Volume, OrderBook, Ask/Bid) and the request layer of loopring/client.py *)
(* (Client construction, close and the GET operations).                    *)
(*                                                                         *)
(* Three specifications share the module:                                  *)
(*   Spec        the construction of one PartialOrder or Order, statement  *)
(*               by statement, followed by reads of the finished object;   *)
(*   SpecBook    the construction of one OrderBook, key by key, and len(); *)
(*   SpecClient  a caller driving one Client through a bounded number of   *)
(*               calls against a server that answers either with a payload *)
(*               or with an error envelope.                                *)
(***************************************************************************)
EXTENDS Integers, Sequences, FiniteSets, TLC

VARIABLES
    cls,      \* class under construction: "PartialOrder" or "Order"
    data,     \* the **data mapping handed to the constructor
    self,     \* the instance __dict__: attribute name -> value
    pc,       \* position in the flattened constructor chain (index in Program)
    i,        \* position of the running "for k in data" loop
    out,      \* the last read made on the finished object
    bdata,    \* the **data mapping handed to OrderBook
    book,     \* the OrderBook instance __dict__
    bpc,      \* position of OrderBook.__init__'s loop over data.keys()
    bexc,     \* the exception that ended OrderBook.__init__, "" if none
    blen,     \* the result of len(book), once taken
    cstate,   \* the Client: "none", "constructed", or "failed" (__init__ raised)
    cattrs,   \* the Client instance __dict__
    session,  \* the aiohttp session: "none", "open" or "closed"
    closes,   \* how often the session's own close() has been invoked
    requests, \* how many HTTP requests have been issued on the session
    calls,    \* how many calls the caller has made on the client
    closeCalls, \* how many of them were Client.close()
    last      \* the last call: its operation, arguments, response and outcome

orderVars == <<cls, data, self, pc, i, out>>

bookVars == <<bdata, book, bpc, bexc, blen>>

clientVars == <<cstate, cattrs, session, closes, requests, calls, closeCalls, last>>

vars == <<orderVars, bookVars, clientVars>>

(***************************************************************************)
(* Bounds of the model.                                                    *)
(***************************************************************************)
\* the largest number of keys in a wire mapping handed to a constructor
MaxKeys == 5

\* the largest number of price levels on one side of an order book
MaxLevels == 2

\* the largest number of calls the caller makes on one client
MaxCalls == 3

(***************************************************************************)
(* Python values.                                                          *)
(***************************************************************************)
\* the default of _is_error's `init` parameter
NoneArg == [__none__ |-> TRUE]

\* `not x` for a mapping-or-None argument
Falsy(x) == x = NoneArg \/ DOMAIN x = {}

\* a returned value / a raised exception
Return(v) == [ok |-> TRUE, v |-> v]
Raise(e) == [ok |-> FALSE, v |-> e]

\* result r is the return of value v / the raise of exception e
Returns(r, v) == r.ok /\ r.v = v
Raises(r, e) == (~ r.ok) /\ r.v = e

\* datetime.fromtimestamp of epoch seconds: the calendar day since the epoch
\* and the second within it (the zone offset is taken as zero)
fromtimestamp(t) == [cls |-> "datetime", day |-> t \div 86400, second |-> t % 86400]

(***************************************************************************)
(* Field-name normalisation (loopring/util/helpers.py, not among the       *)
(* sources: modelled from the specification, section 4.1).                  *)
(***************************************************************************)
SnakeCaseTable ==
    [ resultInfo    |-> "result_info",
      hash          |-> "hash",
      clientOrderId |-> "client_order_id",
      isIdempotent  |-> "is_idempotent",
      status        |-> "status",
      orderType     |-> "order_type",
      validity      |-> "validity",
      volumes       |-> "volumes",
      baseAmount    |-> "base_amount",
      baseFilled    |-> "base_filled",
      fee           |-> "fee",
      quoteAmount   |-> "quote_amount",
      quoteFilled   |-> "quote_filled",
      asks          |-> "asks",
      bids          |-> "bids",
      market        |-> "market",
      timestamp     |-> "timestamp",
      version       |-> "version" ]

to_snake_case(k) == IF k \in DOMAIN SnakeCaseTable THEN SnakeCaseTable[k] ELSE k

(***************************************************************************)
(* The wire mappings the constructors are given.                           *)
(***************************************************************************)
\* top-level wire keys, in the order the mappings list them
WireKeys ==
    << "resultInfo", "hash", "clientOrderId", "isIdempotent",
       "status", "orderType", "validity", "volumes" >>

\* the values a key carries on the wire
WireValues(k) ==
    CASE k = "resultInfo"    -> { [code |-> 104002, message |-> "Invalid API key"] }
      [] k = "hash"          -> { "0x1a", "0x2b" }
      [] k = "clientOrderId" -> { "client-7" }
      [] k = "isIdempotent"  -> { TRUE }
      [] k = "status"        -> { "processed", "cancelled" }
      [] k = "orderType"     -> { "LIMIT_ORDER" }
      [] k = "validity"      -> { [start |-> 1600000000, end |-> 1700003600] }
      [] k = "volumes"       -> { [baseAmount |-> "100", baseFilled |-> "40",
                                   fee |-> "3", quoteAmount |-> "250",
                                   quoteFilled |-> "99"],
                                  [baseAmount |-> "7", fee |-> "0"] }

\* every mapping over the first n wire keys
RECURSIVE MappingsOver(_)
MappingsOver(n) ==
    IF n = 0 THEN { <<>> }
    ELSE LET rest == MappingsOver(n - 1)
         IN  rest \cup { (WireKeys[n] :> v) @@ m : m \in rest, v \in WireValues(WireKeys[n]) }

\* the mappings of at most MaxKeys keys
Mappings == { m \in MappingsOver(Len(WireKeys)) : Cardinality(DOMAIN m) <= MaxKeys }

\* data.keys(): the keys of a mapping in wire order
Keys(d) == SelectSeq(WireKeys, LAMBDA k : k \in DOMAIN d)

(***************************************************************************)
(* Attribute access.                                                       *)
(***************************************************************************)
\* the name-mangled attribute behind `self.__json` in class PartialOrder
JsonSlot == "_PartialOrder__json"

\* setattr(self, name, value) on the instance __dict__
setattr(obj, name, value) == (name :> value) @@ obj

\* object.__getattribute__ for the names in use: the `json` property of
\* PartialOrder (a data descriptor) first, then the instance __dict__
object__getattribute__(obj, name) ==
    IF name = "json"
    THEN IF JsonSlot \in DOMAIN obj THEN Return(obj[JsonSlot]) ELSE Raise("AttributeError")
    ELSE IF name \in DOMAIN obj THEN Return(obj[name]) ELSE Raise("AttributeError")

\* Order.__getattribute__ without its guard on is_idempotent
Order__getattribute__unguarded(obj, name) == object__getattribute__(obj, name)

\* Order.__getattribute__
Order__getattribute__(obj, name) ==
    IF name \in {"is_idempotent"}
    THEN Raise("AttributeError")
    ELSE object__getattribute__(obj, name)

\* getattr(obj, name) on an instance of class c
getattr(c, obj, name) ==
    IF c = "Order" THEN Order__getattribute__(obj, name)
    ELSE object__getattribute__(obj, name)

hasattr(c, obj, name) == getattr(c, obj, name).ok

\* PartialOrder._is_error taking only the empty mapping for an error
_is_error_empty_only(c, obj, init) ==
    IF Falsy(init)
    THEN ~ hasattr(c, obj, "hash")
    ELSE Cardinality(DOMAIN obj[JsonSlot]) < 1

\* PartialOrder._is_error
_is_error(c, obj, init) ==
    IF Falsy(init)
    THEN ~ hasattr(c, obj, "hash")
    ELSE Cardinality(DOMAIN obj[JsonSlot]) < 2

(***************************************************************************)
(* Nested objects.                                                         *)
(***************************************************************************)
RECURSIVE ValidityFill(_, _, _)
ValidityFill(d, ks, obj) ==
    IF ks = <<>> THEN obj
    ELSE ValidityFill(d, Tail(ks), setattr(obj, Head(ks), fromtimestamp(d[Head(ks)])))

\* Validity(**d)
Validity(d) ==
    [cls |-> "Validity",
     dict |-> ValidityFill(d, SelectSeq(<<"start", "end">>, LAMBDA k : k \in DOMAIN d), <<>>)]

RECURSIVE VolumeFill(_, _, _)
VolumeFill(d, ks, obj) ==
    IF ks = <<>> THEN obj
    ELSE VolumeFill(d, Tail(ks), setattr(obj, to_snake_case(Head(ks)), d[Head(ks)]))

\* Volume(**d) keeping the wire names of its fields
Volume_wire_names(d) == [cls |-> "Volume", dict |-> d]

\* Volume(**d)
Volume(d) ==
    [cls |-> "Volume",
     dict |-> VolumeFill(d,
                 SelectSeq(<<"baseAmount", "baseFilled", "fee", "quoteAmount", "quoteFilled">>,
                           LAMBDA k : k \in DOMAIN d),
                 <<>>)]

(***************************************************************************)
(* The constructor chain Order.__init__ -> PartialOrder.__init__ ->        *)
(* Transfer.__init__, flattened into its statements.                       *)
(***************************************************************************)
\* PartialOrder.__init__ with the placeholder check after Transfer.__init__
PartialOrderProgram_late_check ==
    << "PartialOrder.store_json", "PartialOrder.annotations", "Transfer.setattr",
       "PartialOrder.is_error", "PartialOrder.setattr" >>

PartialOrderProgram ==
    << "PartialOrder.store_json", "PartialOrder.is_error", "PartialOrder.annotations",
       "Transfer.setattr", "PartialOrder.setattr" >>

OrderProgram ==
    << "Order.annotations" >> \o PartialOrderProgram \o << "Order.is_error", "Order.setattr" >>

Program(c) ==
    (IF c = "Order" THEN OrderProgram ELSE PartialOrderProgram) \o << "return" >>

\* the position of statement s in the chain of class c
At(c, s) == CHOOSE j \in 1..Len(Program(c)) : Program(c)[j] = s

\* a construction in progress
State(c, d, obj, p, n) == [cls |-> c, data |-> d, self |-> obj, pc |-> p, i |-> n]

Stmt(st) == Program(st.cls)[st.pc]

Returned(st) == Stmt(st) = "return"

\* self.__annotations__.update(super().__annotations__): class-level, no
\* effect on the instance
do_annotations(st) == [st EXCEPT !.pc = @ + 1]

\* self.__json = a copy of data under the normalised names
do_store_json_normalized(st) ==
    [st EXCEPT !.self = setattr(@, JsonSlot,
                          [n \in { to_snake_case(k) : k \in DOMAIN st.data } |->
                             st.data[CHOOSE k \in DOMAIN st.data : to_snake_case(k) = n]]),
               !.pc = @ + 1]

\* self.__json = data
do_store_json(st) == [st EXCEPT !.self = setattr(@, JsonSlot, st.data), !.pc = @ + 1]

\* where `return` leads from the _is_error check of the statement at st.pc
ReturnTarget(st) ==
    IF Stmt(st) = "PartialOrder.is_error"
    THEN At(st.cls, "PartialOrder.setattr") + 1
    ELSE At(st.cls, "return")

\* if self._is_error(data): return
do_is_error(st) ==
    IF _is_error(st.cls, st.self, st.data)
    THEN [st EXCEPT !.pc = ReturnTarget(st)]
    ELSE [st EXCEPT !.pc = @ + 1]

\* Order.__init__ assigning every value as it came
OrderValue_raw(k, v) == v

\* the value Order.__init__ assigns for key k
OrderValue(k, v) ==
    IF k = "validity" THEN Validity(v)
    ELSE IF k = "volumes" THEN Volume(v)
    ELSE v

\* the attribute Order.__init__ assigns for key k
OrderName(k) == IF k \in {"validity", "volumes"} THEN k ELSE to_snake_case(k)

\* one round of `for k in data: setattr(...)`, or the loop's end
do_setattr(st) ==
    LET ks == Keys(st.data) IN
    IF st.i > Len(ks)
    THEN [st EXCEPT !.pc = @ + 1, !.i = 1]
    ELSE LET k == ks[st.i] IN
         IF Stmt(st) = "Order.setattr"
         THEN [st EXCEPT !.self = setattr(@, OrderName(k), OrderValue(k, st.data[k])),
                         !.i = @ + 1]
         ELSE [st EXCEPT !.self = setattr(@, to_snake_case(k), st.data[k]),
                         !.i = @ + 1]

\* the statement at st.pc, executed
Exec(st) ==
    CASE Stmt(st) \in {"Order.annotations", "PartialOrder.annotations"} -> do_annotations(st)
      [] Stmt(st) = "PartialOrder.store_json" -> do_store_json(st)
      [] Stmt(st) \in {"PartialOrder.is_error", "Order.is_error"} -> do_is_error(st)
      [] Stmt(st) \in {"Transfer.setattr", "PartialOrder.setattr", "Order.setattr"} -> do_setattr(st)
      [] OTHER -> st

RECURSIVE Run(_)
Run(st) == IF Returned(st) THEN st ELSE Run(Exec(st))

\* c(**d): the finished instance __dict__
New(c, d) == Run(State(c, d, <<>>, 1, 1)).self

(***************************************************************************)
(* Rendering.                                                              *)
(***************************************************************************)
\* auto_repr (loopring/util/helpers.py, not among the sources)
auto_repr(c, obj) == Return("<" \o c \o " ...>")

\* PartialOrder.__repr__ / Order.__repr__
repr(c, obj) ==
    IF _is_error(c, obj, NoneArg)
    THEN Return("<Incomplete " \o c \o ">")
    ELSE auto_repr(c, obj)

\* PartialOrder.__str__
str(c, obj) ==
    IF _is_error(c, obj, NoneArg)
    THEN Return("Incomplete " \o c \o ".")
    ELSE getattr(c, obj, "hash")

(***************************************************************************)
(* Spec: one construction and the reads that follow it.                    *)
(***************************************************************************)
cur == State(cls, data, self, pc, i)

Advance(st) ==
    /\ self' = st.self
    /\ pc' = st.pc
    /\ i' = st.i
    /\ UNCHANGED <<cls, data, out>>
    /\ UNCHANGED <<bookVars, clientVars>>

NoRead == [op |-> "none", name |-> "", result |-> Return("")]

InitOrder ==
    /\ cls \in {"PartialOrder", "Order"}
    /\ data \in Mappings
    /\ self = <<>>
    /\ pc = 1
    /\ i = 1
    /\ out = NoRead

Annotations ==
    /\ Stmt(cur) \in {"Order.annotations", "PartialOrder.annotations"}
    /\ Advance(do_annotations(cur))

StoreJson ==
    /\ Stmt(cur) = "PartialOrder.store_json"
    /\ Advance(do_store_json(cur))

IsError ==
    /\ Stmt(cur) \in {"PartialOrder.is_error", "Order.is_error"}
    /\ Advance(do_is_error(cur))

TransferSetattr ==
    /\ Stmt(cur) = "Transfer.setattr"
    /\ Advance(do_setattr(cur))

PartialOrderSetattr ==
    /\ Stmt(cur) = "PartialOrder.setattr"
    /\ Advance(do_setattr(cur))

OrderSetattr ==
    /\ Stmt(cur) = "Order.setattr"
    /\ Advance(do_setattr(cur))

\* the attribute names a caller reads
AttrNames == { to_snake_case(WireKeys[j]) : j \in 1..Len(WireKeys) } \cup {"json"}

ReadAttr ==
    /\ Returned(cur)
    /\ \E name \in AttrNames :
         out' = [op |-> "getattr", name |-> name, result |-> getattr(cls, self, name)]
    /\ UNCHANGED <<cls, data, self, pc, i>>
    /\ UNCHANGED <<bookVars, clientVars>>

ReadRepr ==
    /\ Returned(cur)
    /\ out' = [op |-> "repr", name |-> "", result |-> repr(cls, self)]
    /\ UNCHANGED <<cls, data, self, pc, i>>
    /\ UNCHANGED <<bookVars, clientVars>>

ReadStr ==
    /\ Returned(cur)
    /\ out' = [op |-> "str", name |-> "", result |-> str(cls, self)]
    /\ UNCHANGED <<cls, data, self, pc, i>>
    /\ UNCHANGED <<bookVars, clientVars>>

NextOrder ==
    \/ Annotations
    \/ StoreJson
    \/ IsError
    \/ TransferSetattr
    \/ PartialOrderSetattr
    \/ OrderSetattr
    \/ ReadAttr
    \/ ReadRepr
    \/ ReadStr

(***************************************************************************)
(* SpecBook: the construction of one OrderBook.                            *)
(***************************************************************************)
\* the characters of a decimal digit string, and their values
Digits == {"0", "1", "2", "3", "4", "5", "6", "7", "8", "9"}

DigitValue(c) == CHOOSE n \in 0..9 : <<"0", "1", "2", "3", "4", "5", "6", "7", "8", "9">>[n + 1] = c

RECURSIVE DigitsValue(_)
DigitsValue(w) ==
    IF w = <<>> THEN 0 ELSE DigitsValue(SubSeq(w, 1, Len(w) - 1)) * 10 + DigitValue(w[Len(w)])

\* int(w) of a wire string w, given as the sequence of its characters: the
\* value of a run of digits, ValueError for anything else ("99.5", "")
int(w) ==
    IF w # <<>> /\ \A j \in 1..Len(w) : w[j] \in Digits
    THEN Return(DigitsValue(w))
    ELSE Raise("ValueError")

\* _OrderBookOrder.__init__ with the parameters in the order price,
\* quantity, size, volume
OrderBookOrder_alphabetical(c, price, quantity, size, volume) ==
    IF ~ int(quantity).ok \/ ~ int(size).ok \/ ~ int(volume).ok
    THEN Raise("ValueError")
    ELSE Return([cls |-> c,
                 dict |-> [price |-> price, quantity |-> int(quantity).v,
                           size |-> int(size).v, volume |-> int(volume).v]])

\* _OrderBookOrder.__init__(self, price, size, volume, quantity) for class c
OrderBookOrder(c, price, size, volume, quantity) ==
    IF ~ int(quantity).ok \/ ~ int(size).ok \/ ~ int(volume).ok
    THEN Raise("ValueError")
    ELSE Return([cls |-> c,
                 dict |-> [price |-> price, quantity |-> int(quantity).v,
                           size |-> int(size).v, volume |-> int(volume).v]])

\* Ask(*a) / Bid(*a): positional unpacking of one wire array
Unpack(c, a) ==
    IF Len(a) # 4 THEN Raise("TypeError")
    ELSE OrderBookOrder(c, a[1], a[2], a[3], a[4])

\* the loop `for a in data[k]: asks.append(Ask(*a))`
RECURSIVE Levels(_, _)
Levels(c, as) ==
    IF as = <<>> THEN Return(<<>>)
    ELSE LET first == Unpack(c, Head(as)) IN
         IF ~ first.ok THEN first
         ELSE LET rest == Levels(c, Tail(as)) IN
              IF ~ rest.ok THEN rest ELSE Return(<<first.v>> \o rest.v)

\* datetime.fromtimestamp(ms / 1000)
fromtimestamp_ms(ms) ==
    [cls |-> "datetime", day |-> (ms \div 1000) \div 86400,
     second |-> (ms \div 1000) % 86400, microsecond |-> (ms % 1000) * 1000]

\* the keys of an order-book mapping, in wire order
BookKeys == << "market", "timestamp", "version", "asks", "bids" >>

RECURSIVE SumQuantity(_)
SumQuantity(ls) == IF ls = <<>> THEN 0 ELSE Head(ls).dict.quantity + SumQuantity(Tail(ls))

\* OrderBook.__len__
OrderBook__len__(obj) ==
    IF "asks" \notin DOMAIN obj \/ "bids" \notin DOMAIN obj
    THEN Raise("AttributeError")
    ELSE Return(SumQuantity(obj["asks"] \o obj["bids"]))

\* the characters of the wire strings in use
Chars(n) ==
    CASE n = "100.5" -> <<"1", "0", "0", ".", "5">>
      [] n = "99.5"  -> <<"9", "9", ".", "5">>
      [] n = "101"   -> <<"1", "0", "1">>
      [] n = "200"   -> <<"2", "0", "0">>
      [] n = "10"    -> <<"1", "0">>
      [] n = "1"     -> <<"1">>
      [] n = "2"     -> <<"2">>
      [] n = "3"     -> <<"3">>
      [] n = "4"     -> <<"4">>
      [] n = "5"     -> <<"5">>
      [] n = "7"     -> <<"7">>

\* the wire arrays a book carries
ExampleAsk == << Chars("100.5"), Chars("2"), Chars("10"), Chars("200") >>

ExampleBid == << Chars("99.5"), Chars("1"), Chars("5"), Chars("99.5") >>

IntegerLevel == << Chars("101"), Chars("3"), Chars("7"), Chars("4") >>

WireLevels == { ExampleAsk, ExampleBid, IntegerLevel }

\* the sequences of at most n wire arrays
RECURSIVE LevelSeqs(_)
LevelSeqs(n) ==
    IF n = 0 THEN { <<>> }
    ELSE LevelSeqs(n - 1) \cup { <<a>> \o ls : a \in WireLevels, ls \in LevelSeqs(n - 1) }

BookMappings ==
    { [market |-> "LRC-ETH", timestamp |-> t, version |-> 7, asks |-> as, bids |-> bs] :
        t \in {86400123, 1700000999}, as \in LevelSeqs(MaxLevels), bs \in LevelSeqs(MaxLevels) }

IdleBook ==
    /\ bdata = <<>>
    /\ book = <<>>
    /\ bpc = 1
    /\ bexc = ""
    /\ blen = Raise("not taken")

InitBook ==
    /\ bdata \in BookMappings
    /\ book = <<>>
    /\ bpc = 1
    /\ bexc = ""
    /\ blen = Raise("not taken")

\* OrderBook.__init__ is running and its loop is at key k
BookAt(k) == bexc = "" /\ bpc <= Len(BookKeys) /\ BookKeys[bpc] = k

\* OrderBook.__init__ has returned
BookBuilt == bexc = "" /\ bpc > Len(BookKeys)

\* k == "asks" / k == "bids": build the list, then setattr
BookLevels(k, c) ==
    /\ LET ls == Levels(c, bdata[k]) IN
         IF ls.ok
         THEN book' = setattr(book, to_snake_case(k), ls.v) /\ bpc' = bpc + 1 /\ bexc' = bexc
         ELSE book' = book /\ bpc' = bpc /\ bexc' = ls.v
    /\ UNCHANGED <<bdata, blen>>
    /\ UNCHANGED <<orderVars, clientVars>>

BookAsks ==
    /\ BookAt("asks")
    /\ BookLevels("asks", "Ask")

BookBids ==
    /\ BookAt("bids")
    /\ BookLevels("bids", "Bid")

\* k == "timestamp"
BookTimestamp ==
    /\ BookAt("timestamp")
    /\ book' = setattr(book, "timestamp", fromtimestamp_ms(bdata["timestamp"]))
    /\ bpc' = bpc + 1
    /\ UNCHANGED <<bdata, bexc, blen>>
    /\ UNCHANGED <<orderVars, clientVars>>

\* any other key
BookOther ==
    /\ \E k \in {"market", "version"} :
         /\ BookAt(k)
         /\ book' = setattr(book, to_snake_case(k), bdata[k])
    /\ bpc' = bpc + 1
    /\ UNCHANGED <<bdata, bexc, blen>>
    /\ UNCHANGED <<orderVars, clientVars>>

\* len(book) on the constructed book
BookLen ==
    /\ BookBuilt
    /\ blen' = OrderBook__len__(book)
    /\ UNCHANGED <<bdata, book, bpc, bexc>>
    /\ UNCHANGED <<orderVars, clientVars>>

NextBook ==
    \/ BookAsks
    \/ BookBids
    \/ BookTimestamp
    \/ BookOther
    \/ BookLen

IdleOrder ==
    /\ cls = "Order"
    /\ data = <<>>
    /\ self = <<>>
    /\ pc = 1
    /\ i = 1
    /\ out = NoRead

(***************************************************************************)
(* SpecClient: one Client and the calls made on it.                        *)
(***************************************************************************)
\* Python's None as a returned value
None == "None"

\* truth of a supplied value: account and token ids are integers, the rest
\* are strings
Truthy(k, v) == IF k \in {"account_id", "sell_token_id"} THEN v # 0 ELSE v # ""

\* `cfg.get(k) or arg` is truthy; args holds the arguments that are not None
Supplied(cfg, args, k) ==
    \/ k \in DOMAIN cfg /\ Truthy(k, cfg[k])
    \/ k \in DOMAIN args /\ Truthy(k, args[k])

\* the value of `cfg.get(k) or arg`, when truthy
Either(cfg, args, k) ==
    IF k \in DOMAIN cfg /\ Truthy(k, cfg[k]) THEN cfg[k] ELSE args[k]

\* Client.__init__(account_id, api_key, endpoint, handle_errors=he, **config):
\* the exception raised ("" if none), the instance __dict__ and the session
Client__init__(args, he, config) ==
    LET base == [_Client__handle_errors |-> he]
        failed(e) == [exc |-> e, attrs |-> base, session |-> "none"]
    IN
    IF "config" \notin DOMAIN config THEN failed("KeyError")
    ELSE LET cfg == config["config"] IN
         IF ~ Supplied(cfg, args, "account_id") THEN failed("InvalidArguments")
         ELSE IF ~ Supplied(cfg, args, "api_key") THEN failed("InvalidArguments")
         ELSE IF ~ Supplied(cfg, args, "endpoint") THEN failed("InvalidArguments")
         ELSE [exc |-> "",
               attrs |-> [_Client__handle_errors |-> he,
                          account_id |-> Either(cfg, args, "account_id"),
                          api_key |-> Either(cfg, args, "api_key"),
                          endpoint |-> Either(cfg, args, "endpoint")],
               session |-> "open"]

\* Client.close calling the session's close() whatever its state
Client_close_unguarded(sess, n) == [session |-> "closed", closes |-> n + 1]

\* Client.close on a session in state sess whose close() ran n times
Client_close(sess, n) ==
    IF sess # "closed"
    THEN [session |-> "closed", closes |-> n + 1]
    ELSE [session |-> sess, closes |-> n]

\* the error envelopes of the server, and the error each code stands for
ErrorEnvelopes ==
    { [resultInfo |-> [code |-> 104002, message |-> "Invalid API key"]],
      [resultInfo |-> [code |-> 100000, message |-> "Unknown error"]] }

ErrorName(code) == IF code = 104002 THEN "InvalidAPIKey" ELSE "UnknownError"

\* raise_errors_in (loopring/util/helpers.py, not among the sources)
raise_errors_in(content) ==
    IF "resultInfo" \in DOMAIN content
    THEN Raise(ErrorName(content["resultInfo"]["code"]))
    ELSE Return(None)

\* the order payloads of the server
OrderPayloads ==
    { m \in Mappings :
        /\ DOMAIN m = {"hash", "status", "validity", "volumes"}
        /\ m["status"] = "processed"
        /\ "quoteFilled" \in DOMAIN m["volumes"] }

\* the answers of the server to each GET
OrderResponses == ErrorEnvelopes \cup OrderPayloads

OrdersResponses ==
    ErrorEnvelopes \cup
    { [totalNum |-> Len(os), orders |-> os] :
        os \in {<<>>} \cup { <<o>> : o \in OrderPayloads }
                 \cup { <<o, o>> : o \in OrderPayloads } }

StorageIdResponses == ErrorEnvelopes \cup { [orderId |-> 42, offchainId |-> 43] }

TimestampResponses == ErrorEnvelopes \cup { [timestamp |-> 1700000999] }

\* [Order(**o) for o in orders]
RECURSIVE Orders(_)
Orders(os) ==
    IF os = <<>> THEN <<>>
    ELSE << [cls |-> "Order", dict |-> New("Order", Head(os))] >> \o Orders(Tail(os))

\* the body of `async with self._session.get(...)` in each GET, from the
\* decoded content on
Body(op, he, content) ==
    IF he /\ ~ raise_errors_in(content).ok THEN raise_errors_in(content)
    ELSE CASE op = "get_order_details" ->
                Return([cls |-> "Order", dict |-> New("Order", content)])
           [] op = "get_multiple_orders" ->
                IF "orders" \notin DOMAIN content THEN Raise("KeyError")
                ELSE Return(Orders(content["orders"]))
           [] op = "get_next_storage_id" -> Return(content)
           [] op = "get_relayer_timestamp" ->
                IF "timestamp" \notin DOMAIN content THEN Raise("KeyError")
                ELSE Return(content["timestamp"])

\* the argument a GET insists on, "" if none
Required(op) ==
    CASE op = "get_next_storage_id" -> "sell_token_id"
      [] op = "get_order_details" -> "orderhash"
      [] OTHER -> ""

\* one GET operation: its result and the number of requests it issued; a
\* closed session refuses the request (aiohttp raises RuntimeError)
Get(op, he, sess, args, response) ==
    IF Required(op) # "" /\ ~ Supplied(<<>>, args, Required(op))
    THEN [result |-> Raise("InvalidArguments"), issued |-> 0]
    ELSE IF sess # "open"
    THEN [result |-> Raise("RuntimeError"), issued |-> 0]
    ELSE [result |-> Body(op, he, response), issued |-> 1]

NoCall == [op |-> "none", args |-> <<>>, response |-> <<>>, result |-> Return(None), issued |-> 0]

IdleClient ==
    /\ cstate = "none"
    /\ cattrs = <<>>
    /\ session = "none"
    /\ closes = 0
    /\ requests = 0
    /\ calls = 0
    /\ closeCalls = 0
    /\ last = NoCall

\* the config mappings and the explicit arguments of a construction
Configs ==
    [account_id : {0, 12345}, api_key : {"", "key"}, endpoint : {"", "https://api3.loopring.io"}]

\* a mapping without the entries that are not given (0 and "" stand for them)
Given(m) == [k \in { n \in DOMAIN m : Truthy(n, m[n]) } |-> m[k]]

Construct ==
    /\ cstate = "none"
    /\ \E he \in BOOLEAN, c \in Configs, a \in Configs, kw \in BOOLEAN, zero \in BOOLEAN :
         LET args == IF zero /\ a["account_id"] = 0 THEN [account_id |-> 0] @@ Given(a) ELSE Given(a)
             config == IF kw THEN [config |-> Given(c)] ELSE <<>>
             made == Client__init__(args, he, config)
         IN /\ cstate' = IF made.exc = "" THEN "constructed" ELSE "failed"
            /\ cattrs' = made.attrs
            /\ session' = made.session
            /\ last' = [op |-> "Client", args |-> [args |-> args, config |-> config],
                        response |-> <<>>,
                        result |-> IF made.exc = "" THEN Return(None) ELSE Raise(made.exc),
                        issued |-> 0]
    /\ UNCHANGED <<closes, requests, calls, closeCalls>>
    /\ UNCHANGED <<orderVars, bookVars>>

Callable == cstate = "constructed" /\ calls < MaxCalls

Close ==
    /\ Callable
    /\ LET c == Client_close(session, closes) IN
         /\ session' = c.session
         /\ closes' = c.closes
    /\ calls' = calls + 1
    /\ closeCalls' = closeCalls + 1
    /\ last' = [op |-> "close", args |-> <<>>, response |-> <<>>, result |-> Return(None), issued |-> 0]
    /\ UNCHANGED <<cstate, cattrs, requests>>
    /\ UNCHANGED <<orderVars, bookVars>>

Called(op, args, response) ==
    /\ LET g == Get(op, cattrs["_Client__handle_errors"], session, args, response) IN
         /\ requests' = requests + g.issued
         /\ last' = [op |-> op, args |-> args, response |-> response,
                     result |-> g.result, issued |-> g.issued]
    /\ calls' = calls + 1
    /\ UNCHANGED <<cstate, cattrs, session, closes, closeCalls>>
    /\ UNCHANGED <<orderVars, bookVars>>

GetMultipleOrders ==
    /\ Callable
    /\ \E r \in OrdersResponses : Called("get_multiple_orders", <<>>, r)

GetNextStorageId ==
    /\ Callable
    /\ \E a \in {<<>>, [sell_token_id |-> 0], [sell_token_id |-> 1]}, r \in StorageIdResponses :
         Called("get_next_storage_id", a, r)

GetOrderDetails ==
    /\ Callable
    /\ \E a \in {<<>>, [orderhash |-> ""], [orderhash |-> "0x1a"]}, r \in OrderResponses :
         Called("get_order_details", a, r)

GetRelayerTimestamp ==
    /\ Callable
    /\ \E r \in TimestampResponses : Called("get_relayer_timestamp", <<>>, r)

\* the stub: `pass`
SubmitOrder ==
    /\ Callable
    /\ calls' = calls + 1
    /\ last' = [op |-> "submit_order", args |-> <<>>, response |-> <<>>, result |-> Return(None), issued |-> 0]
    /\ UNCHANGED <<cstate, cattrs, session, closes, requests, closeCalls>>
    /\ UNCHANGED <<orderVars, bookVars>>

NextClient ==
    \/ Construct
    \/ Close
    \/ GetMultipleOrders
    \/ GetNextStorageId
    \/ GetOrderDetails
    \/ GetRelayerTimestamp
    \/ SubmitOrder

(***************************************************************************)
(* The specifications.                                                     *)
(***************************************************************************)
Init == InitOrder /\ IdleBook /\ IdleClient

Next == NextOrder

Spec == Init /\ [][Next]_vars

InitOfBook == IdleOrder /\ InitBook /\ IdleClient

SpecBook == InitOfBook /\ [][NextBook]_vars

InitOfClient == IdleOrder /\ IdleBook /\ IdleClient

SpecClient == InitOfClient /\ [][NextClient]_vars

(***************************************************************************)
(* Properties of Spec.                                                     *)
(***************************************************************************)
\* the mapping is classified as a placeholder: fewer than 2 keys
Placeholder(d) == Cardinality(DOMAIN d) < 2

\* the attributes of the instance other than the raw mapping
TypedFields(obj) == DOMAIN obj \ {JsonSlot}

IncompleteRepr == { Return("<Incomplete PartialOrder>"), Return("<Incomplete Order>") }

IncompleteStr == { Return("Incomplete PartialOrder."), Return("Incomplete Order.") }

\* the epoch second a converted date-time stands for
EpochOf(dt) == dt.day * 86400 + dt.second

IsDateTimeOf(dt, t) ==
    /\ DOMAIN dt = {"cls", "day", "second"}
    /\ dt.cls = "datetime"
    /\ dt.second \in 0..86399
    /\ EpochOf(dt) = t

\* wire name and attribute name of the Volume fields
VolumeFields ==
    { <<"baseAmount", "base_amount">>, <<"baseFilled", "base_filled">>, <<"fee", "fee">>,
      <<"quoteAmount", "quote_amount">>, <<"quoteFilled", "quote_filled">> }

\* v is a Validity object holding the date-times of the sub-mapping d
IsValidityOf(v, d) ==
    /\ DOMAIN v = {"cls", "dict"}
    /\ v.cls = "Validity"
    /\ DOMAIN v.dict = DOMAIN d
    /\ \A k \in DOMAIN d : IsDateTimeOf(v.dict[k], d[k])

\* v is a Volume object holding the strings of the sub-mapping d
IsVolumeOf(v, d) ==
    /\ DOMAIN v = {"cls", "dict"}
    /\ v.cls = "Volume"
    /\ DOMAIN v.dict = { f[2] : f \in { g \in VolumeFields : g[1] \in DOMAIN d } }
    /\ \A f \in VolumeFields : f[1] \in DOMAIN d => v.dict[f[2]] = d[f[1]]

\* C1 (as amended): a PartialOrder or Order built from a mapping of 0 or 1
\* key is a placeholder: repr() and str() return a text saying "Incomplete"
\* and reading `hash` raises AttributeError; reading `hash` on an object
\* built from a mapping of 2 or more keys that has a `hash` key succeeds.
C1_PlaceholderRendering ==
    Returned(cur) =>
      /\ Placeholder(data) =>
           /\ repr(cls, self) \in IncompleteRepr
           /\ str(cls, self) \in IncompleteStr
           /\ Raises(getattr(cls, self, "hash"), "AttributeError")
      /\ (~ Placeholder(data) /\ "hash" \in DOMAIN data) =>
           Returns(getattr(cls, self, "hash"), data["hash"])

C1_Witness ==
    /\ Returned(cur)
    /\ Cardinality(DOMAIN data) = 1
    /\ out.op = "getattr" /\ out.name = "hash"
    /\ Raises(out.result, "AttributeError")

\* C1 as stated: as above, but reading `hash` succeeds on every object built
\* from a mapping of 2 or more keys.
C1_Original ==
    Returned(cur) =>
      /\ Placeholder(data) =>
           /\ repr(cls, self) \in IncompleteRepr
           /\ str(cls, self) \in IncompleteStr
           /\ Raises(getattr(cls, self, "hash"), "AttributeError")
      /\ ~ Placeholder(data) => getattr(cls, self, "hash").ok

\* a valid order mapping: it carries the fields the claim reads
ValidOrder(d) == {"hash", "status", "validity", "volumes"} \subseteq DOMAIN d

\* C2: an Order built from a valid order mapping is not a placeholder, its
\* hash and status are the source values, its validity is a Validity object
\* of the converted start/end and its volumes a Volume object holding every
\* source string under its snake_case name.
C2_OrderPopulated ==
    (Returned(cur) /\ cls = "Order" /\ ValidOrder(data)) =>
      /\ ~ _is_error(cls, self, data)
      /\ ~ _is_error(cls, self, NoneArg)
      /\ repr(cls, self) \notin IncompleteRepr
      /\ Returns(getattr(cls, self, "hash"), data["hash"])
      /\ Returns(getattr(cls, self, "status"), data["status"])
      /\ getattr(cls, self, "validity").ok
      /\ IsValidityOf(getattr(cls, self, "validity").v, data["validity"])
      /\ getattr(cls, self, "volumes").ok
      /\ IsVolumeOf(getattr(cls, self, "volumes").v, data["volumes"])

C2_Witness ==
    /\ Returned(cur) /\ cls = "Order" /\ ValidOrder(data)
    /\ out.op = "getattr" /\ out.name = "validity"
    /\ out.result.ok
    /\ IsValidityOf(out.result.v, data["validity"])

\* C4: on every Order instance, populated or placeholder, with or without an
\* isIdempotent key in the mapping, reading is_idempotent raises
\* AttributeError, and every other attribute reads as it does on PartialOrder.
C4_IsIdempotentHidden ==
    cls = "Order" =>
      /\ Raises(getattr(cls, self, "is_idempotent"), "AttributeError")
      /\ \A name \in AttrNames \ {"is_idempotent"} :
           getattr(cls, self, name) = getattr("PartialOrder", self, name)

C4_Witness ==
    /\ Returned(cur) /\ cls = "Order"
    /\ "isIdempotent" \in DOMAIN data
    /\ "is_idempotent" \in DOMAIN self
    /\ out.op = "getattr" /\ out.name = "is_idempotent"
    /\ Raises(out.result, "AttributeError")

\* C8: once the constructor has stored it, the `json` accessor returns exactly
\* the mapping the object was constructed from, placeholder or not, and no
\* later statement of the construction changes it.
C8_RawMappingRetained ==
    pc > At(cls, "PartialOrder.store_json") =>
      Returns(getattr(cls, self, "json"), data)

C8_Witness ==
    /\ Returned(cur)
    /\ ~ Placeholder(data)
    /\ TypedFields(self) # {}
    /\ out.op = "getattr" /\ out.name = "json"
    /\ Returns(out.result, data)

\* the wire value an attribute value stands for, undoing the documented
\* conversions (date-times back to epoch seconds, nested objects back to
\* sub-mappings under the wire names)
WireOf(k, v) ==
    IF k = "validity"
    THEN IF DOMAIN v = {"cls", "dict"} /\ v.cls = "Validity"
            /\ \A f \in DOMAIN v.dict : DOMAIN v.dict[f] = {"cls", "day", "second"}
         THEN [f \in DOMAIN v.dict |-> EpochOf(v.dict[f])]
         ELSE <<>>
    ELSE IF k = "volumes"
    THEN IF DOMAIN v = {"cls", "dict"} /\ v.cls = "Volume"
         THEN [w \in { f[1] : f \in { g \in VolumeFields : g[2] \in DOMAIN v.dict } } |->
                 v.dict[(CHOOSE f \in VolumeFields : f[1] = w)[2]]]
         ELSE <<>>
    ELSE v

\* key k of the mapping reads back from the object with its original value
ReadsBack(k) ==
    /\ getattr(cls, self, to_snake_case(k)).ok
    /\ WireOf(k, getattr(cls, self, to_snake_case(k)).v) = data[k]

\* C9 (as amended): every key of a mapping of 2 or more keys other than
\* isIdempotent reads back from the Order under its snake_case name with its
\* original value, modulo the documented conversions; isIdempotent is stored
\* on the instance but reading it raises AttributeError.
C9_RoundTrip ==
    (Returned(cur) /\ cls = "Order" /\ ~ Placeholder(data)) =>
      /\ \A k \in DOMAIN data \ {"isIdempotent"} : ReadsBack(k)
      /\ "isIdempotent" \in DOMAIN data =>
           /\ self["is_idempotent"] = data["isIdempotent"]
           /\ Raises(getattr(cls, self, "is_idempotent"), "AttributeError")

C9_Witness ==
    /\ Returned(cur) /\ cls = "Order"
    /\ {"hash", "validity", "volumes", "clientOrderId"} \subseteq DOMAIN data
    /\ out.op = "getattr" /\ out.name = "client_order_id"
    /\ Returns(out.result, data["clientOrderId"])

\* C9 as stated: every key of the mapping reads back, none is unreadable.
C9_Original ==
    (Returned(cur) /\ cls = "Order" /\ ~ Placeholder(data)) =>
      \A k \in DOMAIN data : ReadsBack(k)

\* C10: no typed field is on the instance before the fewer-than-2-keys check
\* of PartialOrder.__init__ has been evaluated, and for a placeholder mapping
\* no typed field is on the instance in any state of the construction: at
\* most the raw mapping is stored.
C10_DetectionBeforeAssignment ==
    /\ TypedFields(self) # {} => pc > At(cls, "PartialOrder.is_error")
    /\ Placeholder(data) => TypedFields(self) = {}

C10_Witness ==
    /\ Returned(cur) /\ cls = "Order"
    /\ Cardinality(DOMAIN data) = 1
    /\ DOMAIN self = {JsonSlot}

(***************************************************************************)
(* Properties of SpecBook.                                                 *)
(***************************************************************************)
\* elements 2 to 4 of the wire array are integer literals
IntegerArray(a) == \A j \in 2..4 : int(a[j]).ok

\* the objects ls are, in order, the levels of class c that the wire arrays
\* as give with size, volume and quantity at positions ps, pv and pq
LevelsFrom(c, ls, as, ps, pv, pq) ==
    /\ Len(ls) = Len(as)
    /\ \A j \in 1..Len(as) :
         /\ ls[j].cls = c
         /\ ls[j].dict.price = as[j][1]
         /\ Returns(int(as[j][ps]), ls[j].dict.size)
         /\ Returns(int(as[j][pv]), ls[j].dict.volume)
         /\ Returns(int(as[j][pq]), ls[j].dict.quantity)

\* the sum over the wire arrays of the integer at position p
RECURSIVE SumAt(_, _)
SumAt(as, p) == IF as = <<>> THEN 0 ELSE int(Head(as)[p]).v + SumAt(Tail(as), p)

\* C5 (as amended): the 4-element arrays are read as (price, size, volume,
\* quantity) and elements 2 to 4 must be integer literals, else the
\* construction raises ValueError. A constructed book holds, in input order,
\* one Ask/Bid per array whose size is the second element, volume the third
\* and quantity the fourth, and its length is the sum of the fourth elements.
\* Asks [["100.5","2","10","200"]] with bids [["101","3","7","4"]] give one
\* Ask of quantity 200, one Bid of quantity 4 and length 204; with bids
\* [["99.5","1","5","99.5"]] the construction raises ValueError.
C5_BookLevels ==
    /\ bexc \in {"", "ValueError"}
    /\ bexc = "ValueError" =>
         \/ bpc = 4 /\ \E j \in 1..Len(bdata["asks"]) : ~ IntegerArray(bdata["asks"][j])
         \/ bpc = 5 /\ \E j \in 1..Len(bdata["bids"]) : ~ IntegerArray(bdata["bids"][j])
    /\ "asks" \in DOMAIN book =>
         /\ \A j \in 1..Len(bdata["asks"]) : IntegerArray(bdata["asks"][j])
         /\ LevelsFrom("Ask", book["asks"], bdata["asks"], 2, 3, 4)
    /\ "bids" \in DOMAIN book =>
         /\ \A j \in 1..Len(bdata["bids"]) : IntegerArray(bdata["bids"][j])
         /\ LevelsFrom("Bid", book["bids"], bdata["bids"], 2, 3, 4)
    /\ BookBuilt => DOMAIN book = {"market", "timestamp", "version", "asks", "bids"}
    /\ blen.ok => blen.v = SumAt(bdata["asks"], 4) + SumAt(bdata["bids"], 4)
    /\ (bdata["asks"] = <<ExampleAsk>> /\ bdata["bids"] = <<IntegerLevel>> /\ blen.ok) =>
         /\ book["asks"][1].dict.quantity = 200
         /\ book["bids"][1].dict.quantity = 4
         /\ blen.v = 204
    /\ (bdata["asks"] = <<ExampleAsk>> /\ bdata["bids"] = <<ExampleBid>>) =>
         /\ ~ BookBuilt
         /\ "bids" \notin DOMAIN book
         /\ ~ blen.ok

C5_Witness ==
    /\ BookBuilt
    /\ bdata["asks"] = <<ExampleAsk>> /\ bdata["bids"] = <<IntegerLevel>>
    /\ Returns(blen, 204)

\* C5 as stated: the arrays are read as (price, quantity, size, volume);
\* every construction yields one Ask/Bid per array with quantity the second
\* element, size the third and volume the fourth, and the length is the sum
\* of the second elements (3 for the two example arrays).
C5_Original ==
    /\ bexc = ""
    /\ "asks" \in DOMAIN book => LevelsFrom("Ask", book["asks"], bdata["asks"], 3, 4, 2)
    /\ "bids" \in DOMAIN book => LevelsFrom("Bid", book["bids"], bdata["bids"], 3, 4, 2)
    /\ blen.ok => blen.v = SumAt(bdata["asks"], 2) + SumAt(bdata["bids"], 2)

(***************************************************************************)
(* Properties of SpecClient.                                               *)
(***************************************************************************)
GetOperations ==
    {"get_multiple_orders", "get_next_storage_id", "get_order_details", "get_relayer_timestamp"}

\* the last call was a GET answered with an error envelope by a client whose
\* error handling is disabled
SuppressedError ==
    /\ last.op \in GetOperations
    /\ last.issued = 1
    /\ ~ cattrs["_Client__handle_errors"]
    /\ last.response \in ErrorEnvelopes

\* C3: with handle_errors = False, an operation answered with an error
\* envelope does not raise; get_order_details returns a placeholder Order
\* whose json is the raw server payload, and get_multiple_orders returns
\* without raising too.
C3_Original ==
    SuppressedError =>
      /\ last.result.ok
      /\ last.op = "get_order_details" =>
           /\ DOMAIN last.result.v = {"cls", "dict"}
           /\ repr("Order", last.result.v.dict) \in IncompleteRepr
           /\ Returns(getattr("Order", last.result.v.dict, "json"), last.response)

\* the construction was given key k neither in the config mapping nor as an
\* explicit argument
NotSupplied(k) ==
    /\ k \notin DOMAIN last.args["args"]
    /\ \/ "config" \notin DOMAIN last.args["config"]
       \/ k \notin DOMAIN last.args["config"]["config"]

\* C6: a construction given the account id, the API key or the endpoint
\* neither in the config mapping nor as an argument raises InvalidArguments
\* and opens no session; get_next_storage_id without a sell-token id and
\* get_order_details without an order hash raise InvalidArguments and issue
\* no request.
C6_Original ==
    /\ (last.op = "Client" /\ \E k \in {"account_id", "api_key", "endpoint"} : NotSupplied(k)) =>
         /\ Raises(last.result, "InvalidArguments")
         /\ cstate = "failed"
         /\ session = "none"
         /\ requests = 0
    /\ (last.op = "get_next_storage_id" /\ "sell_token_id" \notin DOMAIN last.args) =>
         /\ Raises(last.result, "InvalidArguments")
         /\ last.issued = 0
    /\ (last.op = "get_order_details" /\ "orderhash" \notin DOMAIN last.args) =>
         /\ Raises(last.result, "InvalidArguments")
         /\ last.issued = 0

\* C7: after any number of close() calls on a constructed client no call has
\* raised, the session is closed once the first call was made, and the
\* session's own close() has been invoked exactly once.
C7_CloseIdempotent ==
    /\ closes <= 1
    /\ closes = 1 <=> closeCalls >= 1
    /\ closeCalls >= 1 <=> session = "closed"
    /\ last.op = "close" => last.result.ok /\ session = "closed"

C7_Witness ==
    /\ closeCalls >= 2
    /\ closes = 1
    /\ session = "closed"
    /\ last.op = "close"
    /\ last.result.ok

(***************************************************************************)
(* Properties of Spec: classification at construction and at rendering.    *)
(***************************************************************************)
\* the finished object renders as incomplete
RendersIncomplete == repr(cls, self) \in IncompleteRepr /\ str(cls, self) \in IncompleteStr

\* C11: a finished PartialOrder or Order renders as incomplete (repr/str)
\* if and only if its mapping had fewer than 2 keys and its typed fields
\* were left unset; no object whose typed fields were populated from a
\* mapping of 2 or more keys, with or without a `hash` key, renders as
\* incomplete.
C11_Original ==
    Returned(cur) =>
      /\ RendersIncomplete <=> (Placeholder(data) /\ TypedFields(self) = {})
      /\ (~ Placeholder(data) /\ TypedFields(self) # {}) =>
           /\ repr(cls, self) \notin IncompleteRepr
           /\ str(cls, self) \notin IncompleteStr

====
